---- MODULE Spec2Model ----
(***************************************************************************)
(* Model of scopus.ScopusSearch (src/scopus/scopus_search.py).             *)
(*                                                                         *)
(* Two parts:                                                              *)
(*   - the record mapper: the `results` property and get_eids(), applied   *)
(*     to the stored list self._json (specification MapSpec);              *)
(*   - the retrieval/cache gateway: ScopusSearch.__init__ handing the      *)
(*     query, the cache file name and the paging parameters to             *)
(*     Search.__init__ (specifications Spec and FairSpec).                 *)
(*                                                                         *)
(* Python values.  A str is a sequence of one-character strings, so that   *)
(* join and the separators it inserts are real.  A dict slot is a record   *)
(* [k, s]: k = "absent" (the key is not in the dict), "None" (JSON null)   *)
(* or "str" (the value s).                                                 *)
(***************************************************************************)
EXTENDS Integers, Sequences, FiniteSets, TLC

VARIABLES
    json,      \* self._json: the stored list of RawItems
    res,       \* what the last access of the `results` property gave
    eids,      \* what the last call of get_eids() gave
    cache,     \* the cache directory: file name -> entry
    server,    \* the remote API: query -> its current result set
    pc,        \* position of the running constructor call
    call,      \* arguments and locals of the running constructor call
    reqs,      \* the page requests the running call has sent so far
    pre,       \* the cache entry of the call's file when the call began
    prev       \* per query: the list the last retrieve(q, false) returned

vars == <<json, res, eids, cache, server, pc, call, reqs, pre, prev>>

-----------------------------------------------------------------------------
(* Bounds of the model *)

MaxAuthors == 3
MaxItems == 3
MaxPages == 2
MaxChanges == 1
BigTotal == 5001

-----------------------------------------------------------------------------
(* Python values *)

Absent == [k |-> "absent", s |-> <<>>]
None == [k |-> "None", s |-> <<>>]
Str(s) == [k |-> "str", s |-> s]

SeqsUpTo(S, n) == UNION {[1..m -> S] : m \in 0..n}

\* sep.join(strs)
RECURSIVE Join(_, _)
Join(sep, strs) ==
    IF strs = <<>> THEN <<>>
    ELSE IF Len(strs) = 1 THEN strs[1]
    ELSE strs[1] \o sep \o Join(sep, Tail(strs))

\* d.get(key): None when the key is absent
DictGet(slot) == IF slot.k = "absent" THEN None ELSE slot

-----------------------------------------------------------------------------
(* The record mapper: ScopusSearch.results, lines 38-82 *)

ScalarKeys ==
    {"eid", "prism:doi", "pii", "dc:title", "subtype", "dc:creator",
     "prism:coverDate", "prism:coverDisplayDate", "prism:publicationName",
     "prism:issn", "source-id", "prism:aggregationType", "prism:volume",
     "prism:issueIdentifier", "prism:pageRange", "citedby-count",
     "openaccess"}

RequiredKeys == {"eid", "dc:title", "openaccess"}

\* Variant of Dedup without the test `i not in authors`
DedupNoCheck(lst) == lst

\* lines 47-50: keep the first occurrence of every author entry

RECURSIVE DedupFrom(_, _, _)
DedupFrom(lst, i, authors) ==
    IF i > Len(lst) THEN authors
    ELSE DedupFrom(lst, i + 1,
                   IF \E j \in 1..Len(authors) : authors[j] = lst[i]
                   THEN authors
                   ELSE Append(authors, lst[i]))

Dedup(lst) == DedupFrom(lst, 1, <<>>)

\* lines 52-53: ";".join([d[field] for d in authors])
\* The comprehension raises KeyError before join can raise TypeError.
JoinField(authors, field) ==
    IF \E j \in 1..Len(authors) : authors[j][field].k = "absent"
    THEN [exc |-> "KeyError", val |-> None]
    ELSE IF \E j \in 1..Len(authors) : authors[j][field].k = "None"
    THEN [exc |-> "TypeError", val |-> None]
    ELSE [exc |-> "none",
          val |-> Str(Join(<<";">>, [j \in 1..Len(authors) |-> authors[j][field].s]))]

\* lines 56-58: aff = auth.get('afid', []); wrapped in a list unless it is one.
\* An afid slot is [k, v]: k = "absent", "None", "dict" (v holds the one
\* dict) or "list" (v is the list of dicts); a dict is [dollar |-> slot].
AffList(auth) ==
    IF auth.afid.k = "absent" THEN <<>>     \* the default []
    ELSE auth.afid.v                        \* the list, or [aff]

\* Variant of AffGroup that joins the ids of one author with ';'
AffGroupSemicolon(auth) ==
    LET aff == AffList(auth) IN
    [exc |-> "none", val |-> Join(<<";">>, [j \in 1..Len(aff) |-> aff[j].dollar.s])]

\* line 59: '-'.join([d['$'] for d in aff]) for one author
AffGroup(auth) ==
    LET aff == AffList(auth) IN
    IF auth.afid.k = "None"                      \* [None]: None['$']
    THEN [exc |-> "TypeError", val |-> <<>>]
    ELSE IF \E j \in 1..Len(aff) : aff[j].dollar.k = "absent"
    THEN [exc |-> "KeyError", val |-> <<>>]
    ELSE IF \E j \in 1..Len(aff) : aff[j].dollar.k = "None"
    THEN [exc |-> "TypeError", val |-> <<>>]
    ELSE [exc |-> "none",
          val |-> Join(<<"-">>, [j \in 1..Len(aff) |-> aff[j].dollar.s])]

\* lines 54-59: the loop over the authors stops at the first one that raises
Affs(authors) ==
    LET g == [j \in 1..Len(authors) |-> AffGroup(authors[j])]
        bad == {j \in 1..Len(authors) : g[j].exc # "none"}
    IN  IF bad # {}
        THEN [exc |-> g[CHOOSE j \in bad : \A i \in bad : j <= i].exc, val |-> <<>>]
        ELSE [exc |-> "none", val |-> [j \in 1..Len(authors) |-> g[j].val]]

\* lines 45-66: the try block of one item and its except KeyError clause.
\* exc = "TypeError" is an exception the except clause does not catch.
AuthorData(item) ==
    IF item.author.k = "absent"                  \* item['author']
    THEN [exc |-> "none", authname |-> None, authid |-> None, afid |-> None]
    ELSE IF item.author.k = "None"               \* for i in None
    THEN [exc |-> "TypeError", authname |-> None, authid |-> None, afid |-> None]
    ELSE
      LET authors == Dedup(item.author.v)
          authname == JoinField(authors, "authname")
          authid == JoinField(authors, "authid")
          affs == Affs(authors)
          afid == Join(<<";">>, affs.val)
          first == IF authname.exc # "none" THEN authname.exc
                   ELSE IF authid.exc # "none" THEN authid.exc
                   ELSE affs.exc
      IN  IF first = "none"
          THEN [exc |-> "none", authname |-> authname.val, authid |-> authid.val,
                afid |-> IF afid = <<>> THEN None ELSE Str(afid)]
          ELSE [exc |-> IF first = "KeyError" THEN "none" ELSE first,
                authname |-> None, authid |-> None, afid |-> None]

\* lines 67-80: the namedtuple of one item
Document(item, a) ==
    [eid |-> item.f["eid"],
     doi |-> DictGet(item.f["prism:doi"]),
     pii |-> DictGet(item.f["pii"]),
     title |-> item.f["dc:title"],
     subtype |-> DictGet(item.f["subtype"]),
     creator |-> DictGet(item.f["dc:creator"]),
     authname |-> a.authname, authid |-> a.authid, afid |-> a.afid,
     coverDate |-> DictGet(item.f["prism:coverDate"]),
     coverDisplayDate |-> DictGet(item.f["prism:coverDisplayDate"]),
     publicationName |-> DictGet(item.f["prism:publicationName"]),
     issn |-> DictGet(item.f["prism:issn"]),
     source_id |-> DictGet(item.f["source-id"]),
     aggregationType |-> DictGet(item.f["prism:aggregationType"]),
     volume |-> DictGet(item.f["prism:volume"]),
     issueIdentifier |-> DictGet(item.f["prism:issueIdentifier"]),
     pageRange |-> DictGet(item.f["prism:pageRange"]),
     citedby_count |-> DictGet(item.f["citedby-count"]),
     openaccess |-> item.f["openaccess"]]

\* One turn of the loop of lines 44-81: the exception it raises, or its record
MapItem(item) ==
    LET a == AuthorData(item) IN
    IF a.exc # "none" THEN [exc |-> a.exc, rec |-> <<>>]
    ELSE IF \E key \in RequiredKeys : item.f[key].k = "absent"   \* item['eid'], ...
    THEN [exc |-> "KeyError", rec |-> <<>>]
    ELSE [exc |-> "none", rec |-> <<Document(item, a)>>]

\* lines 38-82: the property raises what the first failing item raises
results(items) ==
    LET m == [i \in 1..Len(items) |-> MapItem(items[i])]
        bad == {i \in 1..Len(items) : m[i].exc # "none"}
    IN  IF bad # {}
        THEN [called |-> TRUE, exc |-> m[CHOOSE i \in bad : \A j \in bad : i <= j].exc,
              v |-> <<>>]
        ELSE [called |-> TRUE, exc |-> "none", v |-> [i \in 1..Len(items) |-> m[i].rec[1]]]

\* lines 121-123: [d['eid'] for d in self._json]
get_eids(items) ==
    IF \E i \in 1..Len(items) : items[i].f["eid"].k = "absent"
    THEN [called |-> TRUE, exc |-> "KeyError", v |-> <<>>]
    ELSE [called |-> TRUE, exc |-> "none", v |-> [i \in 1..Len(items) |-> items[i].f["eid"]]]

NotCalled == [called |-> FALSE, exc |-> "none", v |-> <<>>]

-----------------------------------------------------------------------------
(* The retrieval/cache gateway: ScopusSearch.__init__, lines 84-114 *)

Queries == {"AUTHOR-NAME(Smith)", "TITLE(graphene)"}

\* line 111: hashlib.md5(query.encode('utf8')).hexdigest()
md5_hexdigest(query) ==
    CASE query = "AUTHOR-NAME(Smith)" -> "f64ee790ad50edf690e18541540e05df"
      [] query = "TITLE(graphene)" -> "d94203d3708ad6aaaed4e0f956459652"

\* line 110: config.get('Directories', 'ScopusSearch'), the directory of line 102
ScopusSearchDir == "~/.scopus/search_scoups"

\* lines 110-111: join(directory, digest)
qfile(query) == <<ScopusSearchDir, md5_hexdigest(query)>>

url == "https://api.elsevier.com/content/search/scopus"
\* line 114: max_entries=5000, count=25, start=0, view='COMPLETE'
\* (max_entries_raised and count_200 are variants with other values)
max_entries_raised == 5000 * 10
max_entries == 5000
count_200 == 100 + 100
count == 25
start == 0
view == "COMPLETE"

\* Variants of InitArgs that do not pass the caller's refresh on
InitArgsAlwaysRefresh(query, refresh) ==
    [query |-> query, filepath |-> qfile(query), url |-> url, refresh |-> TRUE,
     max_entries |-> max_entries, count |-> count, start |-> start, view |-> view]

InitArgsNeverRefresh(query, refresh) ==
    [query |-> query, filepath |-> qfile(query), url |-> url, refresh |-> FALSE,
     max_entries |-> max_entries, count |-> count, start |-> start, view |-> view]

\* lines 113-114: the arguments Search.__init__ is called with
InitArgs(query, refresh) ==
    [query |-> query, filepath |-> qfile(query), url |-> url, refresh |-> refresh,
     max_entries |-> max_entries, count |-> count, start |-> start, view |-> view]

Files == {qfile(q) : q \in Queries}

-----------------------------------------------------------------------------
(* The remote API: a paged search endpoint.  The result set of a query is   *)
(* the list of items <<query, ver, 1>> .. <<query, ver, total>>; a page     *)
(* request is answered with the slice it asks for and the total.            *)

Totals == {0, 1, MaxPages * count + 1, BigTotal}

Min(a, b) == IF a <= b THEN a ELSE b

ResultSet(query, s) == [i \in 1..s.total |-> <<query, s.ver, i>>]

Page(query, s, offset, n) ==
    [i \in 1..Min(n, IF s.total > offset THEN s.total - offset ELSE 0)
        |-> <<query, s.ver, offset + i>>]

Responses == {"ok", "TransportError", "MalformedResponseError"}

-----------------------------------------------------------------------------
(* Search.__init__: the cache-or-fetch protocol of section 4.1 *)

NoEntry == [exists |-> FALSE, items |-> <<>>]
Entry(items) == [exists |-> TRUE, items |-> items]

\* query, refresh: the arguments of ScopusSearch.__init__; args: those it
\* hands to Search.__init__; offset, N, outcome: the locals of the fetch
IdleCall == [query |-> "AUTHOR-NAME(Smith)", refresh |-> FALSE,
             args |-> InitArgs("AUTHOR-NAME(Smith)", FALSE), offset |-> 0,
             N |-> -1, outcome |-> "none"]

\* "If refresh is false and a cache entry exists for the key"
CacheHit(args, c) == ~args.refresh /\ c[args.filepath].exists

\* "Fails with a ResultSetTooLargeError if the reported total exceeds a ceiling"
TooLarge(args, total) == total > args.max_entries

\* "until the cumulative item count reaches the reported total"
Complete(items, total) == Len(items) >= total

\* Variant of WriteCache that writes the list after every page
WriteEveryPage(c, args, items, total) ==
    [c EXCEPT ![args.filepath] = Entry(items)]

\* "On successful completion, the full merged RawItem list is written
\* atomically to the cache entry for that key"
WriteCache(c, args, items, total) ==
    IF Complete(items, total) THEN [c EXCEPT ![args.filepath] = Entry(items)] ELSE c

\* Sum of the sizes of the first k answers
RECURSIVE Received(_, _)
Received(rs, k) == IF k = 0 THEN 0 ELSE rs[k].got + Received(rs, k - 1)

\* The constructor is called: a cache hit loads the entry and is done
Construct(query, refresh) ==
    /\ pc = "idle"
    /\ LET args == InitArgs(query, refresh) IN
         /\ pre' = cache[args.filepath]
         /\ reqs' = <<>>
         /\ IF CacheHit(args, cache)
            THEN /\ json' = cache[args.filepath].items
                 /\ call' = [query |-> query, refresh |-> refresh, args |-> args,
                             offset |-> args.start, N |-> -1, outcome |-> "ok"]
                 /\ pc' = "done"
            ELSE /\ json' = <<>>
                 /\ call' = [query |-> query, refresh |-> refresh, args |-> args,
                             offset |-> args.start, N |-> -1, outcome |-> "none"]
                 /\ pc' = "fetch"
    /\ UNCHANGED <<res, eids, cache, server, prev>>

\* One page request and its answer
FetchPage(resp) ==
    /\ pc = "fetch"
    /\ LET args == call.args
           s == server[args.query]
           batch == Page(args.query, s, call.offset, args.count)
           total == IF call.N = -1 THEN s.total ELSE call.N
           items == json \o batch
           req == [start |-> call.offset, count |-> args.count, resp |-> resp,
                   got |-> IF resp = "ok" THEN Len(batch) ELSE 0]
       IN  /\ reqs' = Append(reqs, req)
           /\ IF resp # "ok"
              THEN /\ call' = [call EXCEPT !.outcome = resp]
                   /\ pc' = "done"
                   /\ UNCHANGED <<json, cache>>
              ELSE IF call.N = -1 /\ TooLarge(args, total)
              THEN /\ call' = [call EXCEPT !.N = total,
                                           !.outcome = "ResultSetTooLargeError"]
                   /\ pc' = "done"
                   /\ UNCHANGED <<json, cache>>
              ELSE /\ json' = items
                   /\ cache' = WriteCache(cache, args, items, total)
                   /\ IF Complete(items, total)
                      THEN /\ call' = [call EXCEPT !.N = total, !.outcome = "ok"]
                           /\ pc' = "done"
                      ELSE /\ call' = [call EXCEPT !.N = total,
                                                   !.offset = call.offset + args.count]
                           /\ pc' = "fetch"
    /\ UNCHANGED <<res, eids, server, pre, prev>>

\* The constructor returns or raises; the caller is free to call again
Return ==
    /\ pc = "done"
    /\ pc' = "idle"
    /\ prev' = IF call.refresh
               THEN [prev EXCEPT ![call.query] = NoEntry]
               ELSE IF call.outcome = "ok"
               THEN [prev EXCEPT ![call.query] = Entry(json)]
               ELSE prev
    /\ json' = <<>>
    /\ call' = IdleCall
    /\ reqs' = <<>>
    /\ pre' = NoEntry
    /\ UNCHANGED <<res, eids, cache, server>>

\* How often the remote result sets have changed so far
RECURSIVE SumVer(_, _)
SumVer(s, qs) ==
    IF qs = {} THEN 0
    ELSE LET q == CHOOSE q \in qs : TRUE IN (s[q].ver - 1) + SumVer(s, qs \ {q})

Changes(s) == SumVer(s, Queries)

\* The remote result set of a query changes between two calls
ServerChange(query, total) ==
    /\ pc = "idle"
    /\ Changes(server) < MaxChanges
    /\ server' = [server EXCEPT ![query] = [ver |-> @.ver + 1, total |-> total]]
    /\ UNCHANGED <<json, res, eids, cache, pc, call, reqs, pre, prev>>

Init ==
    /\ json = <<>>
    /\ res = NotCalled
    /\ eids = NotCalled
    /\ cache = [f \in Files |-> NoEntry]
    /\ server \in [Queries -> [ver : {1}, total : Totals]]
    /\ pc = "idle"
    /\ call = IdleCall
    /\ reqs = <<>>
    /\ pre = NoEntry
    /\ prev = [q \in Queries |-> NoEntry]

Next ==
    \/ \E q \in Queries, r \in BOOLEAN : Construct(q, r)
    \/ \E resp \in Responses : FetchPage(resp)
    \/ Return
    \/ \E q \in Queries, n \in Totals : ServerChange(q, n)

Spec == Init /\ [][Next]_vars

\* A page request is always answered (with a page or an error)
FairSpec == Spec /\ WF_vars(\E resp \in Responses : FetchPage(resp))

-----------------------------------------------------------------------------
(* The stored lists the mapper is applied to *)

Dollar(s) == [dollar |-> s]
AfidAbsent == [k |-> "absent", v |-> <<>>]
AfidNone == [k |-> "None", v |-> <<>>]
AfidDict(d) == [k |-> "dict", v |-> <<d>>]
AfidList(ds) == [k |-> "list", v |-> ds]

Author(name, id, afid) == [authname |-> name, authid |-> id, afid |-> afid]

A1 == Author(Str(<<"A">>), Str(<<"1">>),
             AfidList(<<Dollar(Str(<<"1", "0">>)), Dollar(Str(<<"2", "0">>))>>))
A2 == Author(Str(<<"B">>), Str(<<"2">>),
             AfidList(<<Dollar(Str(<<"3", "0">>)), Dollar(Str(<<"4", "0">>))>>))
A3 == Author(Str(<<"C">>), Str(<<"3">>), AfidDict(Dollar(Str(<<"5", "0">>))))
A4 == Author(Str(<<"D">>), Str(<<"4">>), AfidAbsent)
A5 == Author(Str(<<"E">>), Str(<<"5">>), AfidList(<<>>))
NoName == Author(Absent, Str(<<"6">>), AfidAbsent)
NoId == Author(Str(<<"G">>), Absent, AfidAbsent)
NoDollar == Author(Str(<<"H">>), Str(<<"8">>), AfidList(<<Dollar(Absent)>>))
NullName == Author(None, Str(<<"9">>), AfidAbsent)
NullAfid == Author(Str(<<"I">>), Str(<<"7">>), AfidNone)

WellFormedAuthors == {A1, A2, A3, A4, A5}
AuthorPool == WellFormedAuthors \cup {NoName, NoId, NoDollar, NullName, NullAfid}

AuthorAbsent == [k |-> "absent", v |-> <<>>]
AuthorNone == [k |-> "None", v |-> <<>>]
AuthorList(as) == [k |-> "list", v |-> as]

Item(eid, title, openaccess, doi, author) ==
    [f |-> [key \in ScalarKeys |->
              CASE key = "eid" -> eid
                [] key = "dc:title" -> title
                [] key = "openaccess" -> openaccess
                [] key = "prism:doi" -> doi
                [] OTHER -> Absent],
     author |-> author]

E(n) == Str(<<"e", n>>)
T == Str(<<"t">>)
OA == Str(<<"0">>)

\* One item per author list: the per-item cases.  Well-formed lists go up to
\* MaxAuthors entries; every pair of entries, malformed ones included, is there.
AuthorLists == SeqsUpTo(WellFormedAuthors, MaxAuthors) \cup SeqsUpTo(AuthorPool, 2)

AuthorCases ==
    {Item(E("1"), T, OA, Str(<<"d">>), AuthorList(as)) : as \in AuthorLists}

\* Items the batches are made of; ErrorEntry is the entry the API answers an
\* empty search with: it has no eid
ErrorEntry == Item(Absent, Absent, Absent, Absent, AuthorAbsent)
BatchPool ==
    {Item(E("1"), T, OA, Absent, AuthorList(<<A1, A2>>)),
     Item(E("2"), T, Str(<<"1">>), Str(<<"d">>), AuthorAbsent),
     Item(E("4"), Absent, OA, Absent, AuthorList(<<A3>>)),
     Item(E("5"), T, Absent, Absent, AuthorAbsent),
     Item(E("6"), T, OA, Absent, AuthorNone),
     ErrorEntry}

StoredLists == {<<i>> : i \in AuthorCases} \cup SeqsUpTo(BatchPool, MaxItems)

\* The object after construction, whatever list it holds
MapInit ==
    /\ json \in StoredLists
    /\ res = NotCalled
    /\ eids = NotCalled
    /\ cache = [f \in Files |-> NoEntry]
    /\ server = [q \in Queries |-> [ver |-> 1, total |-> 0]]
    /\ pc = "idle"
    /\ call = IdleCall
    /\ reqs = <<>>
    /\ pre = NoEntry
    /\ prev = [q \in Queries |-> NoEntry]

\* The `results` property is read
GetResults ==
    /\ res' = results(json)
    /\ UNCHANGED <<json, eids, cache, server, pc, call, reqs, pre, prev>>

\* get_eids() is called
GetEids ==
    /\ eids' = get_eids(json)
    /\ UNCHANGED <<json, res, cache, server, pc, call, reqs, pre, prev>>

MapNext == GetResults \/ GetEids

MapSpec == MapInit /\ [][MapNext]_vars

-----------------------------------------------------------------------------
(* Properties of the record mapper, checked under MapSpec *)

HasRequired(item) == \A key \in RequiredKeys : item.f[key].k # "absent"

\* The author data of an item is well formed: a list of entries that each
\* have a name, an id and affiliation ids that are all strings
WellFormedEntry(a) ==
    /\ a.authname.k = "str"
    /\ a.authid.k = "str"
    /\ a.afid.k # "None"
    /\ \A j \in 1..Len(a.afid.v) : a.afid.v[j].dollar.k = "str"

WellFormed(item) ==
    /\ item.author.k = "list"
    /\ \A j \in 1..Len(item.author.v) : WellFormedEntry(item.author.v[j])

\* The distinct entries of a list in the order of their first occurrence
FirstOccurrences(lst) ==
    {k \in 1..Len(lst) : \A j \in 1..(k - 1) : lst[j] # lst[k]}

Distinct(lst) ==
    LET F == FirstOccurrences(lst) IN
    [n \in 1..Cardinality(F) |->
        lst[CHOOSE k \in F : Cardinality({j \in F : j <= k}) = n]]

\* The pieces of s between the occurrences of the character c
RECURSIVE Split(_, _)
Split(s, c) ==
    IF \A i \in 1..Len(s) : s[i] # c THEN <<s>>
    ELSE LET i == CHOOSE i \in 1..Len(s) : s[i] = c /\ \A j \in 1..(i - 1) : s[j] # c
         IN  <<SubSeq(s, 1, i - 1)>> \o Split(SubSeq(s, i + 1, Len(s)), c)

\* The ;-separated entries of a string; the empty string holds none
Entries(s) == IF s = <<>> THEN <<>> ELSE Split(s, ";")

\* The affiliation ids of one ;-separated entry of afid
EntryIds(e) == IF e = <<>> THEN <<>> ELSE Split(e, "-")

\* The affiliation ids of an author entry, as the RawItem gives them
AffIds(a) == [j \in 1..Len(a.afid.v) |-> a.afid.v[j].dollar.s]

\* C5: results returns one record per stored RawItem, in stored order, and
\* the identifier of the i-th record is the i-th element of get_eids()
\* (stated for the lists none of whose items has author data that raises a
\* type error).
C5_RecordsMatchItems ==
    (/\ res.called /\ eids.called
     /\ \A i \in 1..Len(json) : AuthorData(json[i]).exc = "none") =>
        /\ res.exc = "none"
        /\ eids.exc = "none"
        /\ Len(res.v) = Len(json)
        /\ Len(eids.v) = Len(json)
        /\ \A i \in 1..Len(json) :
              /\ eids.v[i] = json[i].f["eid"]
              /\ res.v[i].eid = eids.v[i]

\* C6: when one item of a batch misses a required field (and no item has
\* author data that raises a type error), mapping does not abort and every
\* other item is mapped to its record.
C6_MissingFieldIsolated ==
    (/\ res.called
     /\ Cardinality({i \in 1..Len(json) : ~HasRequired(json[i])}) = 1
     /\ \A i \in 1..Len(json) : AuthorData(json[i]).exc = "none") =>
        /\ res.exc = "none"
        /\ \A i \in 1..Len(json) :
              HasRequired(json[i]) =>
                 \E j \in 1..Len(res.v) :
                    res.v[j] = Document(json[i], AuthorData(json[i]))

\* C7: whatever the author data of the items (all of which have their
\* required fields), mapping does not abort; an item whose author data is
\* missing or malformed has authname, authid and afid absent and its other
\* fields projected.
C7_AuthorDataIsolated ==
    (res.called /\ \A i \in 1..Len(json) : HasRequired(json[i])) =>
        /\ res.exc = "none"
        /\ Len(res.v) = Len(json)
        /\ \A i \in 1..Len(json) :
              /\ ~WellFormed(json[i]) =>
                    /\ res.v[i].authname = None
                    /\ res.v[i].authid = None
                    /\ res.v[i].afid = None
              /\ res.v[i].eid = json[i].f["eid"]
              /\ res.v[i].title = json[i].f["dc:title"]
              /\ res.v[i].openaccess = json[i].f["openaccess"]
              /\ res.v[i].doi = DictGet(json[i].f["prism:doi"])

\* The k-th entries of authname and authid are those of the k-th distinct author
NamesAndIdsMatch(r, d) ==
    /\ r.authname.k = "str"
    /\ r.authid.k = "str"
    /\ Len(Entries(r.authname.s)) = Len(d)
    /\ Len(Entries(r.authid.s)) = Len(d)
    /\ \A k \in 1..Len(d) :
          /\ Entries(r.authname.s)[k] = d[k].authname.s
          /\ Entries(r.authid.s)[k] = d[k].authid.s

\* afid is present and its k-th entry holds the ids of the k-th distinct author
AfidMatches(r, d) ==
    /\ r.afid.k = "str"
    /\ Len(Entries(r.afid.s)) = Len(d)
    /\ \A k \in 1..Len(d) : EntryIds(Entries(r.afid.s)[k]) = AffIds(d[k])

\* C8 as stated: for a well-formed (here: non-empty) author list, authname,
\* authid and afid each hold exactly one ;-separated entry per distinct author
\* entry, in first-occurrence order, the k-th entries belonging to the same
\* author.
C8_OneEntryPerAuthor ==
    (res.called /\ res.exc = "none") =>
        \A i \in 1..Len(json) :
           (WellFormed(json[i]) /\ json[i].author.v # <<>>) =>
              LET d == Distinct(json[i].author.v) IN
              /\ NamesAndIdsMatch(res.v[i], d)
              /\ AfidMatches(res.v[i], d)

\* C8 amended: the same, except that afid is absent instead when it would be
\* the empty string (no author, or one distinct author without affiliation
\* ids).
C8_OneEntryPerAuthorUnlessAfidEmpty ==
    (res.called /\ res.exc = "none") =>
        \A i \in 1..Len(json) :
           WellFormed(json[i]) =>
              LET d == Distinct(json[i].author.v) IN
              /\ NamesAndIdsMatch(res.v[i], d)
              /\ IF Len(d) = 0 \/ (Len(d) = 1 /\ AffIds(d[1]) = <<>>)
                 THEN res.v[i].afid = None
                 ELSE AfidMatches(res.v[i], d)

\* An author list with a repeated entry and two distinct ones was mapped
C8_Witness ==
    /\ res.called /\ res.exc = "none"
    /\ \E i \in 1..Len(json) :
          /\ WellFormed(json[i])
          /\ Len(Distinct(json[i].author.v)) = 2
          /\ Len(json[i].author.v) = 3
          /\ json[i].author.v[3] = json[i].author.v[1]
          /\ res.v[i].afid.k = "str"

\* C9: afid is the ;-join over the distinct authors of their affiliation ids
\* joined with '-': ids 10, 20 give 10-20, two such authors 10-20;30-40; an
\* afid that would be the empty string is absent while authname and authid
\* stay present.
C9_AfidJoin ==
    (res.called /\ res.exc = "none") =>
        \A i \in 1..Len(json) :
           WellFormed(json[i]) =>
              LET d == Distinct(json[i].author.v)
                  r == res.v[i]
                  empty == Len(d) = 0 \/ (Len(d) = 1 /\ AffIds(d[1]) = <<>>)
              IN  /\ r.authname.k = "str" /\ r.authid.k = "str"
                  /\ empty <=> r.afid = None
                  /\ ~empty => AfidMatches(r, d)
                  /\ d = <<A1>> => r.afid = Str(<<"1", "0", "-", "2", "0">>)
                  /\ d = <<A3>> => r.afid = Str(<<"5", "0">>)
                  /\ d = <<A1, A2>> =>
                        r.afid = Str(<<"1", "0", "-", "2", "0", ";",
                                       "3", "0", "-", "4", "0">>)

\* The two-author example was mapped
C9_Witness ==
    /\ res.called /\ res.exc = "none"
    /\ Len(json) = 1
    /\ json[1].author = AuthorList(<<A1, A2, A1>>)
    /\ res.v[1].afid = Str(<<"1", "0", "-", "2", "0", ";", "3", "0", "-", "4", "0">>)

-----------------------------------------------------------------------------
(* Properties of the gateway, checked under Spec and FairSpec *)

\* The cache entry of the file of the running call's query
CallEntry == cache[qfile(call.query)]

\* The complete result set the remote API holds for the running call's query
Remote == ResultSet(call.query, server[call.query])

\* C1: a call that is told a total above 5000 fails with
\* ResultSetTooLargeError, whatever refresh is, after that one request and
\* without writing the cache.
C1_TooLargeFails ==
    /\ (pc # "idle" /\ call.N > 5000) =>
          /\ pc = "done"
          /\ call.outcome = "ResultSetTooLargeError"
          /\ Len(reqs) = 1
          /\ CallEntry = pre
    /\ (/\ pc # "idle" /\ reqs # <<>> /\ reqs[1].resp = "ok"
        /\ server[call.query].total > 5000) =>
          /\ pc = "done"
          /\ call.outcome = "ResultSetTooLargeError"

\* A refreshing call against an existing entry failed for a total above 5000
C1_Witness ==
    /\ pc = "done" /\ call.outcome = "ResultSetTooLargeError"
    /\ call.refresh /\ pre.exists /\ pre.items # <<>>
    /\ CallEntry = pre

\* C2: the cache entry of a query is never a partial result set: during and
\* after a call it is the entry the call found or, once the call succeeded,
\* the full merged list; a failed call leaves the entry it found.
C2_NoPartialCache ==
    /\ pc # "idle" =>
          \/ CallEntry = pre
          \/ /\ pc = "done" /\ call.outcome = "ok"
             /\ CallEntry = Entry(json)
             /\ json = Remote
    /\ (pc = "done" /\ call.outcome # "ok") => CallEntry = pre
    /\ \A q \in Queries :
          cache[qfile(q)].exists =>
             \E v \in 1..(MaxChanges + 1), n \in {m \in Totals : m <= 5000} :
                cache[qfile(q)].items = ResultSet(q, [ver |-> v, total |-> n])

\* A call failed at its third page and the entry it found is still there
C2_Witness ==
    /\ pc = "done"
    /\ call.outcome \in {"TransportError", "MalformedResponseError"}
    /\ Len(reqs) = 3
    /\ Len(json) = 2 * 25
    /\ pre.exists /\ CallEntry = pre

\* C3: a retrieve(Q, false) that finds an entry returns it verbatim, sends no
\* request and leaves the entry alone; a successful retrieve(Q, false) returns
\* what the previous one returned when no refresh of Q came between.
C3_CacheIdempotent ==
    /\ (pc = "done" /\ ~call.refresh /\ pre.exists) =>
          /\ call.outcome = "ok"
          /\ json = pre.items
          /\ reqs = <<>>
          /\ CallEntry = pre
    /\ (pc = "done" /\ ~call.refresh /\ call.outcome = "ok"
        /\ prev[call.query].exists) =>
          json = prev[call.query].items

\* A second retrieve(Q, false) returned the first one's list although the
\* remote result set had changed
C3_Witness ==
    /\ pc = "done" /\ ~call.refresh /\ call.outcome = "ok"
    /\ prev[call.query].exists
    /\ json = prev[call.query].items
    /\ json # <<>>
    /\ json # Remote

\* C4: a retrieve(Q, true) that finds an entry sends requests all the same
\* and, when it succeeds, replaces the entry by the list it fetched, also
\* when that list is shorter.
C4_RefreshOverwrites ==
    (pc = "done" /\ call.refresh /\ pre.exists) =>
          /\ Len(reqs) >= 1
          /\ call.outcome = "ok" =>
                /\ CallEntry = Entry(Remote)
                /\ json = Remote
                /\ \A j \in 1..Len(pre.items) :
                      (\E i \in 1..Len(CallEntry.items) :
                            CallEntry.items[i] = pre.items[j])
                         => \E i \in 1..Len(Remote) : Remote[i] = pre.items[j]

\* A refresh replaced an entry by a shorter list
C4_Witness ==
    /\ pc = "done" /\ call.refresh /\ call.outcome = "ok"
    /\ pre.exists
    /\ CallEntry.exists
    /\ Len(CallEntry.items) < Len(pre.items)
    /\ Len(CallEntry.items) > 0

\* The paging of every call: requests of 25 items, the first at offset 0,
\* each next one where the items received so far end and below the total;
\* a successful fetch holds all the items, as many as the reported total
PagingInvariant ==
    /\ \A k \in 1..Len(reqs) :
          /\ reqs[k].count = 25
          /\ reqs[k].start = Received(reqs, k - 1)
          /\ k > 1 => reqs[k].start < call.N
    /\ (pc = "done" /\ call.outcome = "ok" /\ reqs # <<>>) =>
          /\ call.N <= 5000
          /\ json = Remote
          /\ Len(json) = call.N
          /\ Received(reqs, Len(reqs)) = call.N

====
